---- MODULE Spec2Model ----
(***************************************************************************)
(* Model of the face-identity matching pipeline of the OAT application:   *)
(*   - the progress store          (store/processing.ts)                   *)
(*   - the similarity scorer       (services/ai/face-detector.ts,          *)
(*                                  workers/face-scanner.ts)               *)
(*   - the embedding oracle        (services/ai/face-detector.ts)          *)
(*   - the batch pipeline          (services/processing/                   *)
(*                                  processing-pipeline.ts)                *)
(*   - the record store / blob store operations the pipeline and the       *)
(*     pages around it call        (lib/dexie.ts, opfs-manager.ts)         *)
(*                                                                         *)
(* Numbers.  Embedding components are fixed-point integers in units of     *)
(* 1/Scale, so a similarity (a dot product) is in units of 1/Scale^2 and a *)
(* distance (a square root) in units of 1/Scale.  A JavaScript number that *)
(* may be NaN is a record [nan, v].  An optional value (T | null, or an    *)
(* optional field) is <<>> when absent and <<x>> when present.             *)
(***************************************************************************)
EXTENDS Integers, Sequences, FiniteSets, TLC

VARIABLES
    store,                  \* useProcessingStore state
    referenceFaceEmbedding, \* useAuthStore.referenceFaceEmbedding
    photos,                 \* db.photos: id -> PhotoMetadata
    files,                  \* OPFS originals: id -> image
    cancelled,              \* ProcessingPipeline.cancelled
    initialized,            \* ProcessingPipeline.initialized
    detectionModelsLoaded,  \* face-detector.ts module variable
    recognitionSession,     \* face-detector.ts module variable (TRUE = non-null)
    run,                    \* the processAll() invocations: locals and position
    calibration,            \* position of CalibrationPage.processFace
    mounted,                \* ProcessingPage is mounted (its hasStarted ref is set)
    cancelAt,               \* observer: where each run was when cancel() was called
    cancelSeen,             \* observer: the candidates a run had started at cancel()
    loads,                  \* observer: completed loads of the two models
    scorer                  \* inputs and output of a stand-alone compareFaces call

vars == <<store, referenceFaceEmbedding, photos, files, cancelled, initialized,
          detectionModelsLoaded, recognitionSession, run, calibration, mounted,
          cancelAt, cancelSeen, loads, scorer>>

-----------------------------------------------------------------------------
(* Bounds *)

MaxPhotos == 2      \* photo ids are 1..MaxPhotos
MaxRuns == 2        \* processAll() invocations are 1..MaxRuns
MaxLen == 2         \* longest embedding of the stand-alone scorer inputs
MaxFailed == 1      \* I/O failures are injected while failedFiles is shorter
MaxFaces == 2       \* most detections in an image of the single-photo specification

(* Program constants *)

Scale == 25             \* fixed-point value of 1.0 (length of an L2-normalised embedding)
EMBEDDING_DIM == 512    \* MobileFaceNet output dimension required by processAll
STALE_DIM == 128        \* dimension of the superseded landmark embedding
THRESHOLD_PCT == 28     \* cosine threshold 0.28, in hundredths
WORKER_THRESHOLD_PCT == 60  \* Euclidean threshold 0.6 of the worker scorer, in hundredths

-----------------------------------------------------------------------------
(* JavaScript numbers *)

Num(v) == [nan |-> FALSE, v |-> v]

NaN == [nan |-> TRUE, v |-> 0]

\* A number[] is [length, head]: the array of that length whose first
\* elements are head and whose other elements are 0.
Array(head) == [length |-> Len(head), head |-> head]

\* a[i] read as a number: an index past the end reads undefined, which
\* arithmetic turns into NaN
At(a, i) ==
    IF i \in 1..Len(a.head) THEN Num(a.head[i])
    ELSE IF i \in 1..a.length THEN Num(0)
    ELSE NaN

\* both arrays are defined and 0 at every index of lo..hi
ZeroRange(e1, e2, lo, hi) ==
    /\ lo > Len(e1.head) /\ lo > Len(e2.head)
    /\ lo >= 1 /\ hi <= e1.length /\ hi <= e2.length

\* x + y, x - y, x * y, each operand evaluated once
Add(x, y) ==
    CHOOSE z \in {IF a.nan \/ b.nan THEN NaN ELSE Num(a.v + b.v) : a \in {x}, b \in {y}} : TRUE

Sub(x, y) ==
    CHOOSE z \in {IF a.nan \/ b.nan THEN NaN ELSE Num(a.v - b.v) : a \in {x}, b \in {y}} : TRUE

Mul(x, y) ==
    CHOOSE z \in {IF a.nan \/ b.nan THEN NaN ELSE Num(a.v * b.v) : a \in {x}, b \in {y}} : TRUE

\* x < y and x > y are false when either side is NaN
Lt(x, y) == ~x.nan /\ ~y.nan /\ x.v < y.v

Gt(x, y) == ~x.nan /\ ~y.nan /\ x.v > y.v

ISqrt(n) == CHOOSE r \in 0..n : r * r <= n /\ (r + 1) * (r + 1) > n

\* Math.sqrt on the fixed-point grid
Sqrt(x) ==
    CHOOSE z \in {IF a.nan \/ a.v < 0 THEN NaN ELSE Num(ISqrt(a.v)) : a \in {x}} : TRUE

\* Math.max(lo, Math.min(hi, x)): NaN propagates
Clamp(lo, hi, x) ==
    IF x.nan THEN NaN
    ELSE Num(IF x.v < lo THEN lo ELSE IF x.v > hi THEN hi ELSE x.v)

-----------------------------------------------------------------------------
(* Similarity scorer *)

RECURSIVE DotProduct(_, _, _, _)
\* the loop "for i < embedding1.length: dotProduct += e1[i] * e2[i]" over
\* the indices lo..hi (summed by halves; a range of zeros adds 0)
DotProduct(e1, e2, lo, hi) ==
    IF lo > hi \/ ZeroRange(e1, e2, lo, hi) THEN Num(0)
    ELSE IF lo = hi THEN Mul(At(e1, lo), At(e2, lo))
    ELSE LET mid == (lo + hi) \div 2
         IN Add(DotProduct(e1, e2, lo, mid), DotProduct(e1, e2, mid + 1, hi))

RECURSIVE SumSq(_, _, _, _)
\* the loop "for i < a.length: sum += (a[i] - b[i])^2" over the indices lo..hi
SumSq(e1, e2, lo, hi) ==
    IF lo > hi \/ ZeroRange(e1, e2, lo, hi) THEN Num(0)
    ELSE IF lo = hi
         THEN Mul(Sub(At(e1, lo), At(e2, lo)), Sub(At(e1, lo), At(e2, lo)))
    ELSE LET mid == (lo + hi) \div 2
         IN Add(SumSq(e1, e2, lo, mid), SumSq(e1, e2, mid + 1, hi))

euclideanDistance(a, b) == Sqrt(SumSq(a, b, 1, a.length))

\* AboveThreshold with the boundary value counted as a match
AtOrAboveThreshold(similarity) ==
    ~similarity.nan /\ similarity.v * 100 >= THRESHOLD_PCT * Scale * Scale

\* similarity > THRESHOLD, with similarity in units of 1/Scale^2
AboveThreshold(similarity) ==
    ~similarity.nan /\ similarity.v * 100 > THRESHOLD_PCT * Scale * Scale

\* faceScanner.compareFaces of face-detector.ts, the scorer the pipeline
\* calls: it has no length check and never throws
compareFaces(embedding1, embedding2) ==
    LET similarity == DotProduct(embedding1, embedding2, 1, embedding1.length)
        distance == Sqrt(SumSq(embedding1, embedding2, 1, embedding1.length))
    IN [threw |-> FALSE,
        isMatch |-> AboveThreshold(similarity),
        distance |-> distance,
        similarity |-> similarity,
        confidence |-> Clamp(0, Scale * Scale, similarity)]

\* the result of a call that threw
Threw == [threw |-> TRUE]

\* distance < THRESHOLD, with distance in units of 1/Scale
BelowWorkerThreshold(distance) ==
    ~distance.nan /\ distance.v * 100 < WORKER_THRESHOLD_PCT * Scale

\* compareFaces of workers/face-scanner.ts (Euclidean metric)
workerCompareFaces(embedding1, embedding2) ==
    IF embedding1.length # embedding2.length THEN Threw
    ELSE LET distance == euclideanDistance(embedding1, embedding2)
         IN [threw |-> FALSE,
             isMatch |-> BelowWorkerThreshold(distance),
             distance |-> distance,
             confidence |-> IF distance.nan THEN NaN
                            ELSE Num(IF Scale - distance.v < 0 THEN 0
                                     ELSE Scale - distance.v)]

-----------------------------------------------------------------------------
(* Embedding oracle (face-detector.ts) *)

\* What the recognition model outputs for a face crop: EMBEDDING_DIM numbers;
\* the crop is named by the leading ones, the others are 0.
RawOutput(crop) == [length |-> EMBEDDING_DIM, head |-> crop]

RECURSIVE SquareSum(_, _)
\* rawEmbedding.reduce((sum, v) => sum + v * v, 0): the zeros add nothing
SquareSum(head, n) ==
    IF n = 0 THEN 0 ELSE SquareSum(head, n - 1) + head[n] * head[n]

\* runRecognition: run the model, then L2-normalise to length Scale
runRecognition(crop) ==
    LET rawEmbedding == RawOutput(crop)
        norm == ISqrt(SquareSum(rawEmbedding.head, Len(rawEmbedding.head)))
    IN [length |-> rawEmbedding.length,
        head |-> [i \in 1..Len(rawEmbedding.head) |->
                    (rawEmbedding.head[i] * Scale) \div norm]]

\* the face crops that occur in the images of the model; after rounding,
\* the crops <<14, 48>> and <<5, 15>> are at the same distance from the
\* reference although their similarities lie on either side of the threshold
Crops == {<<4, 3>>, <<14, 48>>, <<-3, 4>>, <<5, 15>>}

\* a detection whose crop or recognition step throws
BadCrop == <<>>

\* An image is [decodable, detections]: whether blobToImage succeeds and the
\* crops the detector finds, in detection order.
NoFaceImage == [decodable |-> TRUE, detections |-> <<>>]

CorruptImage == [decodable |-> FALSE, detections |-> <<>>]

\* the images the user ingests: no face, one face that is not the user, and
\* a group photo in which the second face is the user
Images ==
    {NoFaceImage,
     [decodable |-> TRUE, detections |-> <<<<-3, 4>>>>],
     [decodable |-> TRUE, detections |-> <<<<-3, 4>>, <<4, 3>>>>]}

RECURSIVE DetectLoop(_, _)
\* the loop of detectAllFaces over the first n detections: a face whose
\* processing throws is skipped
DetectLoop(detections, n) ==
    IF n = 0 THEN <<>>
    ELSE IF detections[n] = BadCrop THEN DetectLoop(detections, n - 1)
    ELSE Append(DetectLoop(detections, n - 1),
                [hasFace |-> TRUE, embedding |-> <<runRecognition(detections[n])>>])

\* detectAllFaces once the models are loaded: every failure is caught and
\* reported as an empty list
detectAllFaces(image) ==
    IF ~image.decodable THEN <<>>
    ELSE DetectLoop(image.detections, Len(image.detections))

\* the embedding calibration stores for the user's selfie
ReferenceVec == runRecognition(<<1, 0>>)

\* an embedding of the superseded 128-dimension generation
StaleVec == [length |-> STALE_DIM, head |-> <<Scale>>]

-----------------------------------------------------------------------------
(* Progress store (store/processing.ts) *)

InitialStore ==
    [status |-> "idle", totalFiles |-> 0, processedFiles |-> 0, matchedFiles |-> 0,
     currentFileId |-> <<>>, error |-> <<>>, failedFiles |-> <<>>]

setStatus(s, status) == [s EXCEPT !.status = status]

setTotalFiles(s, count) == [s EXCEPT !.totalFiles = count]

incrementProcessed(s) == [s EXCEPT !.processedFiles = @ + 1]

incrementMatched(s) == [s EXCEPT !.matchedFiles = @ + 1]

setCurrentFile(s, fileId) == [s EXCEPT !.currentFileId = <<fileId>>]

\* a setError that moves the status and drops the message
setErrorStatusOnly(s, error) == [s EXCEPT !.status = "error"]

setError(s, error) == [s EXCEPT !.error = <<error>>, !.status = "error"]

addFailedFile(s, fileId) == [s EXCEPT !.failedFiles = Append(@, fileId)]

\* selectProgress: the percentage shown, Math.round(processed / total * 100)
selectProgress(s) ==
    IF s.totalFiles = 0 THEN 0
    ELSE (2 * 100 * s.processedFiles + s.totalFiles) \div (2 * s.totalFiles)

\* the messages processAll passes to setError
NoReferenceMessage == "No reference face set. Please calibrate first."

StaleMessage(dims) ==
    IF dims = STALE_DIM
    THEN "Stale calibration data (128 dims, need 512). Please re-calibrate."
    ELSE "Stale calibration data (other dims, need 512). Please re-calibrate."

InitFailedMessage == "Failed to load face detection model"

-----------------------------------------------------------------------------
(* Record store (lib/dexie.ts) and ingestion *)

\* the record IngestionPage.startProcessing adds for a stored file
NewPhoto(id) ==
    [id |-> id, opfsPath |-> id, filename |-> id, timestamp |-> id, size |-> id,
     mimeType |-> "image/jpeg", source |-> "local",
     hasFace |-> FALSE, isMatch |-> FALSE, faceConfidence |-> <<>>,
     processed |-> FALSE]

RECURSIVE toArrayReversed(_, _)
\* toArray with the records in descending primary-key order
toArrayReversed(table, ids) ==
    IF ids = {} THEN <<>>
    ELSE LET first == CHOOSE x \in ids : \A y \in ids : y <= x
         IN <<table[first]>> \o toArrayReversed(table, ids \ {first})

\* db.photos.toArray(): the records in primary-key order
RECURSIVE toArray(_, _)
toArray(table, ids) ==
    IF ids = {} THEN <<>>
    ELSE LET last == CHOOSE x \in ids : \A y \in ids : y <= x
         IN Append(toArray(table, ids \ {last}), table[last])

RECURSIVE Unprocessed(_, _)
\* allPhotos.filter(p => !p.processed), over the first n records
Unprocessed(allPhotos, n) ==
    IF n = 0 THEN <<>>
    ELSE IF allPhotos[n].processed THEN Unprocessed(allPhotos, n - 1)
    ELSE Append(Unprocessed(allPhotos, n - 1), allPhotos[n])

\* updatePhoto as a put of a whole record: the fields the updates do not
\* name are lost, and a record is created when there is none
updatePhotoPut(table, id, updates) ==
    [x \in DOMAIN table \cup {id} |->
        IF x # id THEN table[x]
        ELSE [id |-> id, opfsPath |-> 0, filename |-> 0, timestamp |-> 0, size |-> 0,
              mimeType |-> "", source |-> "",
              hasFace |-> updates.hasFace,
              processed |-> updates.processed,
              isMatch |-> IF updates.isMatch = <<>> THEN FALSE ELSE updates.isMatch[1],
              faceConfidence |-> updates.faceConfidence]]

\* dbHelpers.updatePhoto: a partial update of the record with that key, and
\* no change when there is no such record; absent fields of updates keep
\* their stored value
updatePhoto(table, id, updates) ==
    IF id \notin DOMAIN table THEN table
    ELSE [table EXCEPT ![id] =
            [@ EXCEPT !.hasFace = updates.hasFace,
                      !.processed = updates.processed,
                      !.isMatch = IF updates.isMatch = <<>> THEN @
                                  ELSE updates.isMatch[1],
                      !.faceConfidence = IF updates.faceConfidence = <<>> THEN @
                                         ELSE updates.faceConfidence]]

-----------------------------------------------------------------------------
(* Batch pipeline (processing-pipeline.ts) *)

Runs == 1..MaxRuns

\* the locals of a processAll() call that has not started
IdleRun ==
    [pc |-> "idle", referenceEmbedding |-> <<>>, init |-> "none", photos |-> <<>>,
     i |-> 0, faces |-> <<>>, bestMatch |-> <<>>, updates |-> <<>>, failed |-> {},
     running |-> FALSE, matched |-> 0]

RECURSIVE BestMatchKeepsFirst(_, _, _)
\* BestMatch that never replaces the first comparison
BestMatchKeepsFirst(referenceEmbedding, faces, n) ==
    IF n = 0 THEN <<>>
    ELSE LET bestMatch == BestMatchKeepsFirst(referenceEmbedding, faces, n - 1)
             face == faces[n]
         IN IF face.embedding = <<>> \/ bestMatch # <<>> THEN bestMatch
            ELSE <<compareFaces(referenceEmbedding, face.embedding[1])>>

RECURSIVE BestMatchLastOnTie(_, _, _)
\* BestMatch with a later face replacing the best one at equal distance
BestMatchLastOnTie(referenceEmbedding, faces, n) ==
    IF n = 0 THEN <<>>
    ELSE LET bestMatch == BestMatchLastOnTie(referenceEmbedding, faces, n - 1)
             face == faces[n]
         IN IF face.embedding = <<>> THEN bestMatch
            ELSE LET comparison == compareFaces(referenceEmbedding, face.embedding[1])
                 IN IF bestMatch = <<>>
                       \/ ~Gt(comparison.distance, bestMatch[1].distance)
                    THEN <<comparison>>
                    ELSE bestMatch

RECURSIVE BestMatchFarthest(_, _, _)
\* BestMatch that keeps the comparison with the highest distance
BestMatchFarthest(referenceEmbedding, faces, n) ==
    IF n = 0 THEN <<>>
    ELSE LET bestMatch == BestMatchFarthest(referenceEmbedding, faces, n - 1)
             face == faces[n]
         IN IF face.embedding = <<>> THEN bestMatch
            ELSE LET comparison == compareFaces(referenceEmbedding, face.embedding[1])
                 IN IF bestMatch = <<>>
                       \/ Gt(comparison.distance, bestMatch[1].distance)
                    THEN <<comparison>>
                    ELSE bestMatch

RECURSIVE BestMatch(_, _, _)
\* the loop of processPhoto over the first n faces: keep the comparison
\* with the lowest distance, the earlier one on a tie
BestMatch(referenceEmbedding, faces, n) ==
    IF n = 0 THEN <<>>
    ELSE LET bestMatch == BestMatch(referenceEmbedding, faces, n - 1)
             face == faces[n]
         IN IF face.embedding = <<>> THEN bestMatch
            ELSE LET comparison == compareFaces(referenceEmbedding, face.embedding[1])
                 IN IF bestMatch = <<>>
                       \/ Lt(comparison.distance, bestMatch[1].distance)
                    THEN <<comparison>>
                    ELSE bestMatch

\* Updates with hasFace never set
UpdatesNeverHasFace(faces, bestMatch) ==
    [hasFace |-> FALSE,
     processed |-> TRUE,
     isMatch |-> IF bestMatch = <<>> THEN <<>> ELSE <<bestMatch[1].isMatch>>,
     faceConfidence |-> IF bestMatch = <<>> THEN <<>>
                        ELSE <<bestMatch[1].confidence>>]

\* Updates with hasFace set whatever the number of faces
UpdatesAlwaysHasFace(faces, bestMatch) ==
    [hasFace |-> TRUE,
     processed |-> TRUE,
     isMatch |-> IF bestMatch = <<>> THEN <<>> ELSE <<bestMatch[1].isMatch>>,
     faceConfidence |-> IF bestMatch = <<>> THEN <<>>
                        ELSE <<bestMatch[1].confidence>>]

\* the updates object processPhoto builds from the detected faces
Updates(faces, bestMatch) ==
    [hasFace |-> Len(faces) > 0,
     processed |-> TRUE,
     isMatch |-> IF bestMatch = <<>> THEN <<>> ELSE <<bestMatch[1].isMatch>>,
     faceConfidence |-> IF bestMatch = <<>> THEN <<>>
                        ELSE <<bestMatch[1].confidence>>]

\* The head of the for loop of processAll, reached with loop index i: the
\* cancellation check, then either the start of processPhoto (up to its
\* first await) or the end of the run.  Yields <<run locals, store>>.
LoopHead(locals, s, i, isCancelled) ==
    IF i < Len(locals.photos)
    THEN IF isCancelled
         THEN <<[locals EXCEPT !.pc = "done", !.i = i], setStatus(s, "idle")>>
         ELSE <<[locals EXCEPT !.pc = "readFile", !.i = i, !.faces = <<>>,
                               !.bestMatch = <<>>, !.updates = <<>>],
                setCurrentFile(s, locals.photos[i + 1].id)>>
    ELSE <<[locals EXCEPT !.pc = "done", !.i = i], setStatus(s, "complete")>>

\* faceScanner.initialize() up to its first await: "scanner" when both models
\* are loaded (it returns at once), "loading" when it starts to load them
ScannerInitialize ==
    IF detectionModelsLoaded /\ recognitionSession THEN "scanner" ELSE "loading"

\* ProcessingPipeline.initialize() up to its first await
PipelineInitialize == IF initialized THEN "memo" ELSE ScannerInitialize

\* StartOutcome without the check for a missing reference
StartOutcomeNoNullCheck(refData) ==
    IF refData = <<>> THEN "ok"
    ELSE IF refData[1].embedding.length # EMBEDDING_DIM THEN "stale"
    ELSE "ok"

\* StartOutcome without the check of the embedding's dimension
StartOutcomeNoDimCheck(refData) ==
    IF refData = <<>> THEN "noReference" ELSE "ok"

\* the two checks processAll makes on the stored reference before anything else
StartOutcome(refData) ==
    IF refData = <<>> THEN "noReference"
    ELSE IF refData[1].embedding.length # EMBEDDING_DIM THEN "stale"
    ELSE "ok"

\* processAll() from its call to its first await (the call of initialize), or
\* to its return when the reference embedding is missing or stale
ProcessAllStart(r) ==
    /\ run[r].pc = "idle"
    /\ \A q \in Runs : q < r => run[q].pc # "idle"
    /\ ~mounted
    /\ mounted' = TRUE
    /\ cancelled' = FALSE
    /\ LET refData == referenceFaceEmbedding
           outcome == StartOutcome(refData)
       IN IF outcome = "noReference"
          THEN /\ store' = setError(store, NoReferenceMessage)
               /\ run' = [run EXCEPT ![r].pc = "done"]
          ELSE IF outcome = "stale"
          THEN /\ store' = setError(store, StaleMessage(refData[1].embedding.length))
               /\ run' = [run EXCEPT ![r].pc = "done"]
          ELSE /\ store' = setStatus(store, "calibrating")
               /\ run' = [run EXCEPT
                            ![r].pc = "initialize",
                            ![r].referenceEmbedding =
                                IF refData = <<>> THEN <<>> ELSE <<refData[1].embedding>>,
                            ![r].init = PipelineInitialize]
    /\ UNCHANGED <<referenceFaceEmbedding, photos, files, initialized,
                   detectionModelsLoaded, recognitionSession, calibration,
                   cancelAt, cancelSeen, loads, scorer>>

\* Ready with the failure of initialize() ignored
ReadyAlways(init, ok) == TRUE

\* the value of "ready", what this.initialize() resolves to: true from the
\* memo or from a scanner that was loaded already, else whether loading
\* succeeded
Ready(init, ok) == IF init = "loading" THEN ok ELSE TRUE

\* "await this.initialize()" returns: the models were loaded (ok) or loading
\* failed; then processAll either fails or calls db.photos.toArray()
InitializeReturns(r, ok) ==
    /\ run[r].pc = "initialize"
    /\ run[r].init # "loading" => ok
    /\ IF run[r].init = "loading" /\ ok
       THEN /\ recognitionSession' = TRUE /\ detectionModelsLoaded' = TRUE
            /\ loads' = loads + 1
       ELSE UNCHANGED <<recognitionSession, detectionModelsLoaded, loads>>
    /\ initialized' = IF run[r].init # "memo" /\ ok THEN TRUE ELSE initialized
    /\ IF Ready(run[r].init, ok)
       THEN /\ run' = [run EXCEPT ![r].pc = "toArray"]
            /\ store' = store
       ELSE /\ run' = [run EXCEPT ![r].pc = "done"]
            /\ store' = setError(store, InitFailedMessage)
    /\ UNCHANGED <<mounted, referenceFaceEmbedding, photos, files, cancelled, calibration,
                   cancelAt, cancelSeen, scorer>>

\* EmptyQueue with the test for an empty snapshot left out
EmptyQueueNever(snapshot) == FALSE

\* "photos.length === 0": there is nothing to process
EmptyQueue(snapshot) == Len(snapshot) = 0

\* db.photos.toArray() returns: filter the unprocessed photos, then either
\* complete at once or set the total and enter the loop; running records
\* that the call has set 'processing'
Snapshot(r) ==
    /\ run[r].pc = "toArray"
    /\ LET allPhotos == toArray(photos, DOMAIN photos)
           snapshot == Unprocessed(allPhotos, Len(allPhotos))
       IN IF EmptyQueue(snapshot)
          THEN /\ store' = setStatus(store, "complete")
               /\ run' = [run EXCEPT ![r].pc = "done"]
          ELSE LET next == LoopHead([run[r] EXCEPT !.photos = snapshot,
                                                  !.running = TRUE],
                                    setStatus(setTotalFiles(store, Len(snapshot)),
                                              "processing"),
                                    0, cancelled)
               IN /\ run' = [run EXCEPT ![r] = next[1]]
                  /\ store' = next[2]
    /\ UNCHANGED <<mounted, referenceFaceEmbedding, photos, files, cancelled, initialized,
                   detectionModelsLoaded, recognitionSession, calibration,
                   cancelAt, cancelSeen, loads, scorer>>

\* the photo the run is processing
Current(r) == run[r].photos[run[r].i + 1]

\* the catch block of the loop, then the call of yieldToUI
CatchBlock(r) ==
    /\ store' = incrementProcessed(addFailedFile(store, Current(r).id))
    /\ run' = [run EXCEPT ![r].pc = "yieldToUI",
                          ![r].failed = @ \cup {Current(r).id}]

\* opfsManager.readFile returns the blob (ok and the file exists) or throws;
\* with the blob, processPhoto calls detectAllFaces
ReadFile(r, ok) ==
    /\ run[r].pc = "readFile"
    /\ ~ok => Len(store.failedFiles) < MaxFailed
    /\ IF ok /\ Current(r).id \in DOMAIN files
       THEN /\ run' = [run EXCEPT ![r].pc = "detectAllFaces"]
            /\ store' = store
       ELSE CatchBlock(r)
    /\ UNCHANGED <<mounted, referenceFaceEmbedding, photos, files, cancelled, initialized,
                   detectionModelsLoaded, recognitionSession, calibration,
                   cancelAt, cancelSeen, loads, scorer>>

\* detectAllFaces returns: compare every face, keep the best, count a match,
\* then call dbHelpers.updatePhoto
DetectAllFaces(r) ==
    /\ run[r].pc = "detectAllFaces"
    /\ IF ~(detectionModelsLoaded /\ recognitionSession)
       THEN CatchBlock(r)
       ELSE \E faces \in {detectAllFaces(files[Current(r).id])} :
            \E bestMatch \in {IF Len(faces) > 0
                              THEN BestMatch(run[r].referenceEmbedding[1], faces, Len(faces))
                              ELSE <<>>} :
               /\ run' = [run EXCEPT ![r].pc = "updatePhoto",
                                     ![r].faces = faces,
                                     ![r].bestMatch = bestMatch,
                                     ![r].updates = <<Updates(faces, bestMatch)>>,
                                     ![r].matched =
                                         IF bestMatch # <<>> /\ bestMatch[1].isMatch
                                         THEN @ + 1 ELSE @]
               /\ store' = IF bestMatch # <<>> /\ bestMatch[1].isMatch
                           THEN incrementMatched(store)
                           ELSE store
    /\ UNCHANGED <<mounted, referenceFaceEmbedding, photos, files, cancelled, initialized,
                   detectionModelsLoaded, recognitionSession, calibration,
                   cancelAt, cancelSeen, loads, scorer>>

\* dbHelpers.updatePhoto returns (ok) or throws; then the processed counter
\* is incremented and the run yields
UpdatePhoto(r, ok) ==
    /\ run[r].pc = "updatePhoto"
    /\ ~ok => Len(store.failedFiles) < MaxFailed
    /\ IF ok
       THEN /\ photos' = updatePhoto(photos, Current(r).id, run[r].updates[1])
            /\ store' = incrementProcessed(store)
            /\ run' = [run EXCEPT ![r].pc = "yieldToUI"]
       ELSE /\ photos' = photos
            /\ CatchBlock(r)
    /\ UNCHANGED <<mounted, referenceFaceEmbedding, files, cancelled, initialized,
                   detectionModelsLoaded, recognitionSession, calibration,
                   cancelAt, cancelSeen, loads, scorer>>

\* a yieldToUI whose promise is never resolved: the run stays where it is
YieldNeverResolves(r) ==
    /\ run[r].pc = "yieldToUI"
    /\ UNCHANGED vars

\* yieldToUI resolves: i++ and the head of the loop.  After the loop the run
\* sets 'complete'; the statistics it then reads are only logged.
YieldToUI(r) ==
    /\ run[r].pc = "yieldToUI"
    /\ LET next == LoopHead(run[r], store, run[r].i + 1, cancelled)
       IN /\ run' = [run EXCEPT ![r] = next[1]]
          /\ store' = next[2]
    /\ UNCHANGED <<mounted, referenceFaceEmbedding, photos, files, cancelled, initialized,
                   detectionModelsLoaded, recognitionSession, calibration,
                   cancelAt, cancelSeen, loads, scorer>>

\* the number of candidates a run has finished when it is between two items
\* (<<>> while an item is in flight, and before or after the run)
BetweenItems(locals) ==
    IF locals.pc \in {"initialize", "toArray"} THEN <<0>>
    ELSE IF locals.pc = "yieldToUI" THEN <<locals.i + 1>>
    ELSE <<>>

\* the number of candidates a processAll() call has started so far
Started(locals) ==
    IF locals.pc \in {"readFile", "detectAllFaces", "updatePhoto", "yieldToUI"}
    THEN locals.i + 1
    ELSE locals.i

\* ProcessingPage.handleCancel: the Cancel button is shown while the status
\* is 'processing'; it calls processingPipeline.cancel() and navigates to
\* the ingestion page
Cancel ==
    /\ mounted
    /\ store.status = "processing"
    /\ cancelled' = TRUE
    /\ mounted' = FALSE
    /\ cancelAt' = [r \in Runs |->
                      IF cancelAt[r] = <<>> THEN BetweenItems(run[r]) ELSE cancelAt[r]]
    /\ cancelSeen' = [r \in Runs |->
                        IF cancelSeen[r] = <<>> /\ run[r].pc \notin {"idle", "done"}
                        THEN <<Started(run[r])>>
                        ELSE cancelSeen[r]]
    /\ UNCHANGED <<store, referenceFaceEmbedding, photos, files, initialized,
                   detectionModelsLoaded, recognitionSession, run, calibration,
                   loads, scorer>>

\* ProcessingPage is left without a cancel: it navigates to the results once
\* the status is 'complete', and after an error the user goes back
LeaveProcessingPage ==
    /\ mounted
    /\ store.status \in {"complete", "error"}
    /\ mounted' = FALSE
    /\ UNCHANGED <<store, referenceFaceEmbedding, photos, files, cancelled,
                   initialized, detectionModelsLoaded, recognitionSession, run,
                   calibration, cancelAt, cancelSeen, loads, scorer>>

-----------------------------------------------------------------------------
(* The pages around the pipeline *)

\* IngestionPage.startProcessing for one file: write it to OPFS and add its
\* record; ids are time-ordered, so a new id follows the earlier ones
Ingest(image) ==
    /\ ~mounted
    /\ Cardinality(DOMAIN photos) < MaxPhotos
    /\ LET id == Cardinality(DOMAIN photos) + 1
       IN /\ files' = [x \in DOMAIN files \cup {id} |->
                         IF x = id THEN image ELSE files[x]]
          /\ photos' = [x \in DOMAIN photos \cup {id} |->
                          IF x = id THEN NewPhoto(id) ELSE photos[x]]
    /\ UNCHANGED <<mounted, store, referenceFaceEmbedding, cancelled, initialized,
                   detectionModelsLoaded, recognitionSession, run, calibration,
                   cancelAt, cancelSeen, loads, scorer>>

\* CalibrationPage.processFace up to its first await, the call of
\* faceScanner.initialize()
CalibrateStart ==
    /\ ~mounted
    /\ calibration = "idle"
    /\ referenceFaceEmbedding # <<[embedding |-> ReferenceVec]>>
    /\ calibration' = ScannerInitialize
    /\ UNCHANGED <<mounted, store, referenceFaceEmbedding, photos, files, cancelled,
                   initialized, detectionModelsLoaded, recognitionSession, run,
                   cancelAt, cancelSeen, loads, scorer>>

\* faceScanner.initialize() returns to processFace; on success detectFace
\* extracts the selfie's embedding and setReferenceFaceEmbedding stores it
CalibrateFinish(ok) ==
    /\ calibration # "idle"
    /\ calibration = "scanner" => ok
    /\ calibration' = "idle"
    /\ IF calibration = "loading" /\ ok
       THEN /\ recognitionSession' = TRUE /\ detectionModelsLoaded' = TRUE
            /\ loads' = loads + 1
       ELSE UNCHANGED <<recognitionSession, detectionModelsLoaded, loads>>
    /\ referenceFaceEmbedding' =
          IF ok THEN <<[embedding |-> ReferenceVec]>> ELSE referenceFaceEmbedding
    /\ UNCHANGED <<mounted, store, photos, files, cancelled, initialized, run, cancelAt,
                   cancelSeen, scorer>>

\* the embeddings handed to the auth store from outside the calibration
\* page: one of the superseded 128-dimension generation, one of 512
StoredEmbeddings == {StaleVec, ReferenceVec}

\* useAuthStore.setReferenceEmbedding(embedding), called while no reference
\* is stored: the store takes any embedding, whatever models are loaded
setReferenceEmbedding(embedding) ==
    /\ ~mounted
    /\ referenceFaceEmbedding = <<>>
    /\ referenceFaceEmbedding' = <<[embedding |-> embedding]>>
    /\ UNCHANGED <<mounted, store, photos, files, cancelled, initialized,
                   detectionModelsLoaded, recognitionSession, run, calibration,
                   cancelAt, cancelSeen, loads, scorer>>

-----------------------------------------------------------------------------
(* Specification of the application *)

NoScorerCall ==
    [embedding1 |-> Array(<<>>), embedding2 |-> Array(<<>>), by |-> "none", out |-> <<>>]

Init ==
    /\ store = InitialStore
    /\ referenceFaceEmbedding = <<>>
    /\ photos = <<>>
    /\ files = <<>>
    /\ cancelled = FALSE
    /\ initialized = FALSE
    /\ detectionModelsLoaded = FALSE
    /\ recognitionSession = FALSE
    /\ run = [r \in Runs |-> IdleRun]
    /\ calibration = "idle"
    /\ mounted = FALSE
    /\ cancelAt = [r \in Runs |-> <<>>]
    /\ cancelSeen = [r \in Runs |-> <<>>]
    /\ loads = 0
    /\ scorer = NoScorerCall

Next ==
    \/ \E r \in Runs : ProcessAllStart(r)
    \/ \E r \in Runs, ok \in BOOLEAN : InitializeReturns(r, ok)
    \/ \E r \in Runs : Snapshot(r)
    \/ \E r \in Runs, ok \in BOOLEAN : ReadFile(r, ok)
    \/ \E r \in Runs : DetectAllFaces(r)
    \/ \E r \in Runs, ok \in BOOLEAN : UpdatePhoto(r, ok)
    \/ \E r \in Runs : YieldToUI(r)
    \/ Cancel
    \/ LeaveProcessingPage
    \/ \E image \in Images : Ingest(image)
    \/ CalibrateStart
    \/ \E ok \in BOOLEAN : CalibrateFinish(ok)
    \/ \E embedding \in StoredEmbeddings : setReferenceEmbedding(embedding)

Spec == Init /\ [][Next]_vars

-----------------------------------------------------------------------------
(* Specification of the application with a single call of processAll: the   *)
(* pages act as in Spec, and the processing page is opened once.            *)

NextRun ==
    \/ ProcessAllStart(1)
    \/ \E ok \in BOOLEAN : InitializeReturns(1, ok)
    \/ Snapshot(1)
    \/ \E ok \in BOOLEAN : ReadFile(1, ok)
    \/ DetectAllFaces(1)
    \/ \E ok \in BOOLEAN : UpdatePhoto(1, ok)
    \/ YieldToUI(1)
    \/ Cancel
    \/ LeaveProcessingPage
    \/ \E image \in Images : Ingest(image)
    \/ CalibrateStart
    \/ \E ok \in BOOLEAN : CalibrateFinish(ok)
    \/ \E embedding \in StoredEmbeddings : setReferenceEmbedding(embedding)

SpecRun == Init /\ [][NextRun]_vars

\* a step of the processAll() call r after its start: one of its awaits
\* returns or throws
RunStep(r) ==
    \/ \E ok \in BOOLEAN : InitializeReturns(r, ok)
    \/ Snapshot(r)
    \/ \E ok \in BOOLEAN : ReadFile(r, ok)
    \/ DetectAllFaces(r)
    \/ \E ok \in BOOLEAN : UpdatePhoto(r, ok)
    \/ YieldToUI(r)

\* SpecRun in which every await of the call settles: model loading, the
\* snapshot, the blob read, the oracle call and the ledger write return or
\* throw, and the promise of yieldToUI is resolved by requestIdleCallback's
\* timeout of 100 ms or by setTimeout
SpecRunLive == SpecRun /\ WF_vars(RunStep(1))

-----------------------------------------------------------------------------
(* Specification of the processing of one photo: the application right      *)
(* after a run took its snapshot of a single ingested photo, for every      *)
(* image of up to MaxFaces detections.                                      *)

Detections == Crops \cup {BadCrop}

RECURSIVE SeqsUpTo(_, _)
\* the sequences over S of length at most n
SeqsUpTo(S, n) ==
    IF n = 0 THEN {<<>>}
    ELSE LET shorter == SeqsUpTo(S, n - 1)
         IN shorter \cup {Append(q, x) : q \in shorter, x \in S}

AllImages ==
    {CorruptImage}
    \cup {[decodable |-> TRUE, detections |-> d] : d \in SeqsUpTo(Detections, MaxFaces)}

InitPhoto ==
    /\ store = [InitialStore EXCEPT !.status = "processing", !.totalFiles = 1,
                                    !.currentFileId = <<1>>]
    /\ referenceFaceEmbedding = <<[embedding |-> ReferenceVec]>>
    /\ photos = [id \in {1} |-> NewPhoto(id)]
    /\ \E image \in AllImages : files = [id \in {1} |-> image]
    /\ cancelled = FALSE
    /\ initialized = TRUE
    /\ detectionModelsLoaded = TRUE
    /\ recognitionSession = TRUE
    /\ run = [r \in Runs |->
                IF r = 1
                THEN [IdleRun EXCEPT !.pc = "readFile",
                                     !.referenceEmbedding = <<ReferenceVec>>,
                                     !.init = "scanner",
                                     !.photos = <<NewPhoto(1)>>,
                                     !.running = TRUE]
                ELSE IdleRun]
    /\ calibration = "idle"
    /\ mounted = TRUE
    /\ cancelAt = [r \in Runs |-> <<>>]
    /\ cancelSeen = [r \in Runs |-> <<>>]
    /\ loads = 1
    /\ scorer = NoScorerCall

NextPhoto ==
    \/ \E ok \in BOOLEAN : ReadFile(1, ok)
    \/ DetectAllFaces(1)
    \/ \E ok \in BOOLEAN : UpdatePhoto(1, ok)
    \/ YieldToUI(1)
    \/ Cancel

SpecPhoto == InitPhoto /\ [][NextPhoto]_vars

-----------------------------------------------------------------------------
(* Specification of the scorers alone: one call of either compareFaces on   *)
(* every pair of embeddings of length at most MaxLen.                       *)

Components == {-25, 0, 7, 10, 24, 25}

Embeddings == {Array(h) : h \in SeqsUpTo(Components, MaxLen)}

InitCompare ==
    /\ store = InitialStore
    /\ referenceFaceEmbedding = <<>>
    /\ photos = <<>>
    /\ files = <<>>
    /\ cancelled = FALSE
    /\ initialized = FALSE
    /\ detectionModelsLoaded = FALSE
    /\ recognitionSession = FALSE
    /\ run = [r \in Runs |-> IdleRun]
    /\ calibration = "idle"
    /\ mounted = FALSE
    /\ cancelAt = [r \in Runs |-> <<>>]
    /\ cancelSeen = [r \in Runs |-> <<>>]
    /\ loads = 0
    /\ \E e1 \in Embeddings, e2 \in Embeddings :
          scorer = [embedding1 |-> e1, embedding2 |-> e2, by |-> "none", out |-> <<>>]

\* a call of faceScanner.compareFaces (face-detector.ts)
CallCompareFaces ==
    /\ scorer.by = "none"
    /\ scorer' = [scorer EXCEPT
                    !.by = "detector",
                    !.out = <<compareFaces(scorer.embedding1, scorer.embedding2)>>]
    /\ UNCHANGED <<store, referenceFaceEmbedding, photos, files, cancelled,
                   initialized, detectionModelsLoaded, recognitionSession, run,
                   calibration, mounted, cancelAt, cancelSeen, loads>>

\* a call of the worker's compareFaces (workers/face-scanner.ts)
CallWorkerCompareFaces ==
    /\ scorer.by = "none"
    /\ scorer' = [scorer EXCEPT
                    !.by = "worker",
                    !.out = <<workerCompareFaces(scorer.embedding1, scorer.embedding2)>>]
    /\ UNCHANGED <<store, referenceFaceEmbedding, photos, files, cancelled,
                   initialized, detectionModelsLoaded, recognitionSession, run,
                   calibration, mounted, cancelAt, cancelSeen, loads>>

NextCompare == CallCompareFaces \/ CallWorkerCompareFaces

SpecCompare == InitCompare /\ [][NextCompare]_vars

-----------------------------------------------------------------------------
(* Properties *)

\* the run went through its whole snapshot and set 'complete'
EndedComplete(r) ==
    /\ run[r].pc = "done"
    /\ Len(run[r].photos) > 0
    /\ run[r].i = Len(run[r].photos)

\* no run was started after run r, and no other run is still in flight
LastAndAlone(r) ==
    \A q \in Runs \ {r} : run[q].pc = "done" \/ (q > r /\ run[q].pc = "idle")

SnapshotIds(r) == {run[r].photos[k].id : k \in 1..Len(run[r].photos)}

FailedIds == {store.failedFiles[k] : k \in 1..Len(store.failedFiles)}

\* the record processPhoto leaves for candidate k of run r: the snapshot
\* record updated from the faces of the candidate's own image
ExpectedRecord(r, k) ==
    LET photo == run[r].photos[k]
        faces == detectAllFaces(files[photo.id])
        bestMatch == IF Len(faces) > 0
                     THEN BestMatch(run[r].referenceEmbedding[1], faces, Len(faces))
                     ELSE <<>>
    IN updatePhoto([id \in {photo.id} |-> photo], photo.id,
                   Updates(faces, bestMatch))[photo.id]

\* run r takes the step of processAll that starts it
Starts(r) == run[r].pc = "idle" /\ run'[r].pc # "idle"

\* run r takes a step that leaves the application's data alone: no record,
\* no file, no model and no memo changes, and initialize() is not called
TouchesNothing(r) ==
    /\ photos' = photos
    /\ files' = files
    /\ run'[r].init = "none"
    /\ run'[r].photos = <<>>
    /\ UNCHANGED <<initialized, detectionModelsLoaded, recognitionSession>>

\* a call of processAll that returned takes no further step
ReturnedStays == \A r \in Runs : run[r].pc = "done" => run'[r] = run[r]

\* C1: in every state of the progress store,
\* 0 <= matchedFiles <= processedFiles <= totalFiles.
C1_CountersOrdered ==
    /\ 0 <= store.matchedFiles
    /\ store.matchedFiles <= store.processedFiles
    /\ store.processedFiles <= store.totalFiles

\* C2: a run over K candidates during which cancel() was called after
\* candidate m was processed (0 <= m <= K) has ended with status 'idle',
\* exactly m of its candidates marked processed in the ledger and the other
\* K-m records as they were in the snapshot.
C2_CancelAfterM ==
    \A r \in Runs :
        (run[r].pc = "done" /\ Len(run[r].photos) > 0 /\ cancelAt[r] # <<>>
         /\ LastAndAlone(r))
        => /\ store.status = "idle"
           /\ Cardinality({id \in SnapshotIds(r) : photos[id].processed}) = cancelAt[r][1]
           /\ \A k \in 1..Len(run[r].photos) :
                 k > cancelAt[r][1] => photos[run[r].photos[k].id] = run[r].photos[k]

\* C3: a run over K candidates in which some candidate threw, and that was
\* not cancelled, has ended with status 'complete', processedFiles = K, the
\* candidate in failedFiles and every other candidate's record updated from
\* its own detection and comparison.
C3_SingleFailure ==
    \A r \in Runs :
        (run[r].pc = "done" /\ run[r].failed # {} /\ ~cancelled /\ LastAndAlone(r))
        => /\ store.status = "complete"
           /\ store.processedFiles = Len(run[r].photos)
           /\ run[r].failed \subseteq FailedIds
           /\ \A k \in 1..Len(run[r].photos) :
                 run[r].photos[k].id \notin run[r].failed
                 => photos[run[r].photos[k].id] = ExpectedRecord(r, k)

\* C4: once a run has reached 'complete', every candidate of its snapshot,
\* a candidate whose processing threw included, has processed = TRUE in the
\* record store.
C4_AllMarkedProcessed ==
    \A r \in Runs :
        EndedComplete(r) => \A id \in SnapshotIds(r) : photos[id].processed

\* C5: a processAll() call made while no reference embedding is stored sets
\* status 'error' with its message in that same step and returns: the status
\* does not become 'calibrating', initialize() is not called, and no record
\* or file is read or changed; a call that returned does nothing more.
C5_NoReference ==
    [][/\ \A r \in Runs :
            (Starts(r) /\ referenceFaceEmbedding = <<>>)
            => /\ store'.status = "error"
               /\ store'.error = <<NoReferenceMessage>>
               /\ run'[r].pc = "done"
               /\ TouchesNothing(r)
       /\ ReturnedStays]_vars

W5_NoReference ==
    \E r \in Runs :
        /\ run[r].pc = "done"
        /\ run[r].referenceEmbedding = <<>>
        /\ store.status = "error"
        /\ store.error = <<NoReferenceMessage>>

\* C6: a processAll() call made while the stored reference embedding has a
\* length other than 512 sets status 'error' with the re-calibrate message
\* in that same step and returns: initialize() is not called and no record
\* or file is read or changed.
C6_StaleReference ==
    [][/\ \A r \in Runs :
            (Starts(r) /\ referenceFaceEmbedding # <<>>
             /\ referenceFaceEmbedding[1].embedding.length # EMBEDDING_DIM)
            => /\ store'.status = "error"
               /\ store'.error =
                     <<"Stale calibration data (128 dims, need 512). Please re-calibrate.">>
               /\ run'[r].pc = "done"
               /\ TouchesNothing(r)
       /\ ReturnedStays]_vars

W6_StaleReference ==
    \E r \in Runs :
        /\ run[r].pc = "done"
        /\ referenceFaceEmbedding = <<[embedding |-> StaleVec]>>
        /\ store.status = "error"
        /\ store.error = <<StaleMessage(STALE_DIM)>>

\* C7: when a run's wait for initialize() ends with the models not loaded,
\* the run sets status 'error' with its message and returns: it takes no
\* snapshot, does not set totalFiles and changes no record.
C7_InitFailure ==
    [][/\ \A r \in Runs :
            (run[r].pc = "initialize" /\ run'[r].pc # "initialize"
             /\ ~(detectionModelsLoaded' /\ recognitionSession'))
            => /\ store'.status = "error"
               /\ store'.error = <<InitFailedMessage>>
               /\ run'[r].pc = "done"
               /\ run'[r].photos = <<>>
               /\ store'.totalFiles = store.totalFiles
               /\ photos' = photos
               /\ files' = files
       /\ ReturnedStays]_vars

W7_InitFailure ==
    \E r \in Runs :
        /\ run[r].pc = "done"
        /\ run[r].init = "loading"
        /\ store.status = "error"
        /\ store.error = <<InitFailedMessage>>
        /\ ~detectionModelsLoaded

\* the comparisons of the faces of run r's current photo with its reference
Comparisons(r) ==
    [k \in 1..Len(run[r].faces) |->
        compareFaces(run[r].referenceEmbedding[1], run[r].faces[k].embedding[1])]

\* run r's current photo has N >= 2 faces, all with embeddings, at pairwise
\* distinct distances from the reference
DistinctFaces(r) ==
    /\ Len(run[r].faces) >= 2
    /\ \A k \in 1..Len(run[r].faces) : run[r].faces[k].embedding # <<>>
    /\ \A j, k \in 1..Len(run[r].faces) :
          j # k => Comparisons(r)[j].distance # Comparisons(r)[k].distance

\* run r's write of its current photo's record returns without an error
Writes(r) ==
    /\ run[r].pc = "updatePhoto"
    /\ run'[r].pc = "yieldToUI"
    /\ run'[r].failed = run[r].failed

\* C8: when the record of a photo with N >= 2 faces at pairwise distinct
\* distances is written, its isMatch and faceConfidence are those of the
\* comparison with the least distance, whatever the detection order.
C8_BestFace ==
    [][\A r \in Runs :
          (Writes(r) /\ DistinctFaces(r))
          => LET nearest == CHOOSE k \in 1..Len(run[r].faces) :
                               \A j \in 1..Len(run[r].faces) :
                                  ~Lt(Comparisons(r)[j].distance,
                                      Comparisons(r)[k].distance)
                 record == photos'[Current(r).id]
             IN /\ record.isMatch = Comparisons(r)[nearest].isMatch
                /\ record.faceConfidence = <<Comparisons(r)[nearest].confidence>>
                /\ record.hasFace]_vars

\* a photo whose nearest face is not the first one detected has been written
W8_BestFace ==
    \E r \in Runs :
        /\ run[r].pc = "yieldToUI"
        /\ run[r].failed = {}
        /\ DistinctFaces(r)
        /\ Lt(Comparisons(r)[2].distance, Comparisons(r)[1].distance)
        /\ photos[Current(r).id].processed

\* C9: for a photo in which detectAllFaces finds no face, no comparison is
\* kept and the matched counter is not incremented, and the record written
\* has hasFace = FALSE, isMatch = FALSE and processed = TRUE.
C9_NoFace ==
    [][\A r \in Runs :
          /\ (run[r].pc = "detectAllFaces" /\ run'[r].pc = "updatePhoto"
              /\ run'[r].faces = <<>>)
             => /\ run'[r].bestMatch = <<>>
                /\ run'[r].updates[1].isMatch = <<>>
                /\ store'.matchedFiles = store.matchedFiles
          /\ (Writes(r) /\ run[r].faces = <<>>)
             => /\ ~photos'[Current(r).id].hasFace
                /\ ~photos'[Current(r).id].isMatch
                /\ photos'[Current(r).id].processed
                /\ store'.matchedFiles = store.matchedFiles]_vars

\* the record of a photo without a face has been written
W9_NoFace ==
    \E r \in Runs :
        /\ run[r].pc = "yieldToUI"
        /\ run[r].failed = {}
        /\ run[r].faces = <<>>
        /\ run[r].updates # <<>>
        /\ photos[Current(r).id].processed

\* C10: a call of the pipeline's compareFaces with embeddings of unequal
\* length fails and yields no comparison result.
C10_MismatchFails ==
    (scorer.by = "detector" /\ scorer.embedding1.length # scorer.embedding2.length)
    => scorer.out[1].threw

C12_CancelStopsRun ==
    \A r \in Runs :
        cancelSeen[r] # <<>> => Started(run[r]) <= cancelSeen[r][1]

\* the position of a status on the path idle -> calibrating -> processing ->
\* {complete, error}
Rank(status) ==
    IF status = "idle" THEN 0
    ELSE IF status = "calibrating" THEN 1
    ELSE IF status = "processing" THEN 2
    ELSE 3

\* C13: once a run has started, every change of the status moves forward on
\* idle -> calibrating -> processing -> {complete, error}: 'processing' is
\* entered from 'calibrating' only, and the one step back is to 'idle', taken
\* from 'processing' by a cancelled run; the step that starts a run sets
\* 'calibrating' or 'error'.
C13_StatusForward ==
    [][store'.status # store.status
       => IF \E r \in Runs : Starts(r)
          THEN store'.status \in {"calibrating", "error"}
          ELSE /\ store'.status = "processing" => store.status = "calibrating"
               /\ \/ Rank(store'.status) > Rank(store.status)
                  \/ /\ store'.status = "idle"
                     /\ store.status = "processing"
                     /\ cancelled]_vars

\* C14: when initialize() has succeeded and no photo is unprocessed at the
\* snapshot, the run sets 'complete' and returns without ever setting
\* 'processing', and changes no record, file or counter.
C14_EmptyQueue ==
    [][\A r \in Runs :
          (run[r].pc = "toArray" /\ run'[r].pc # "toArray"
           /\ \A id \in DOMAIN photos : photos[id].processed)
          => /\ store' = [store EXCEPT !.status = "complete"]
             /\ run'[r].pc = "done"
             /\ ~run'[r].running
             /\ run'[r].photos = <<>>
             /\ photos' = photos
             /\ files' = files]_vars

\* a run that found nothing to process has returned
W14_EmptyQueue ==
    \E r \in Runs :
        /\ run[r].pc = "done"
        /\ run[r].init \in {"loading", "scanner", "memo"}
        /\ run[r].photos = <<>>
        /\ store.status = "complete"
        /\ detectionModelsLoaded /\ recognitionSession

\* the ids of the photos that are unprocessed in the record store
UnprocessedIds == {id \in DOMAIN photos : ~photos[id].processed}

\* run r takes its snapshot and finds a photo to process
TakesSnapshot(r) ==
    /\ run[r].pc = "toArray"
    /\ run'[r].pc # "toArray"
    /\ UnprocessedIds # {}

\* C15: a run's snapshot holds exactly the photos that are unprocessed when
\* it is taken, in primary-key order, and sets totalFiles to their number;
\* afterwards the snapshot is fixed, so a photo added later is not part of
\* it; the run starts candidate i + 1 only after candidate i has finished,
\* and writes no record other than that of its current candidate.
C15_SnapshotOrder ==
    [][\A r \in Runs :
          /\ TakesSnapshot(r)
             => /\ Len(run'[r].photos) = Cardinality(UnprocessedIds)
                /\ \A k \in 1..Len(run'[r].photos) :
                      /\ run'[r].photos[k] = photos[run'[r].photos[k].id]
                      /\ run'[r].photos[k].id \in UnprocessedIds
                      /\ \A j \in 1..(k - 1) :
                            run'[r].photos[j].id < run'[r].photos[k].id
                /\ store'.totalFiles = Cardinality(UnprocessedIds)
          /\ run[r].pc \notin {"idle", "initialize", "toArray"}
             => run'[r].photos = run[r].photos
          /\ (store'.totalFiles # store.totalFiles) => \E q \in Runs : TakesSnapshot(q)
          /\ (run'[r].pc = "readFile" /\ run[r].pc # "readFile")
             => \/ run[r].pc = "toArray" /\ run'[r].i = 0
                \/ run[r].pc = "yieldToUI" /\ run'[r].i = run[r].i + 1
          /\ run'[r].pc = "yieldToUI" /\ run[r].pc # "yieldToUI"
             => /\ run'[r].i = run[r].i
                /\ \A id \in DOMAIN photos :
                      photos'[id] # photos[id] => id = run[r].photos[run[r].i + 1].id]_vars

\* a run has gone through its snapshot and written its records, and a
\* photo that was added after the snapshot is still unprocessed
W15_SnapshotOrder ==
    \E r \in Runs :
        /\ run[r].pc = "done"
        /\ Len(run[r].photos) > 0
        /\ run[r].i = Len(run[r].photos)
        /\ \A id \in SnapshotIds(r) : photos[id].processed
        /\ \E id \in DOMAIN photos \ SnapshotIds(r) : ~photos[id].processed

\* C16: in the selection of the best face a later face replaces the current
\* best only when its distance is strictly lower: the record written has the
\* isMatch and faceConfidence of the first face, in detection order, among
\* the faces at the least distance.
C16_FirstWinsTie ==
    [][\A r \in Runs :
          (Writes(r) /\ Len(run[r].faces) >= 2
           /\ \A k \in 1..Len(run[r].faces) : ~Comparisons(r)[k].distance.nan)
          => LET first == CHOOSE k \in 1..Len(run[r].faces) :
                             /\ \A j \in 1..Len(run[r].faces) :
                                   Comparisons(r)[j].distance.v >= Comparisons(r)[k].distance.v
                             /\ \A j \in 1..(k - 1) :
                                   Comparisons(r)[j].distance.v > Comparisons(r)[k].distance.v
                 record == photos'[Current(r).id]
             IN /\ record.isMatch = Comparisons(r)[first].isMatch
                /\ record.faceConfidence = <<Comparisons(r)[first].confidence>>]_vars

\* a photo whose two faces are at the same distance, the first no match and
\* the second a match, has been written as no match
W16_FirstWinsTie ==
    \E r \in Runs :
        /\ run[r].pc = "yieldToUI"
        /\ run[r].failed = {}
        /\ Len(run[r].faces) = 2
        /\ Comparisons(r)[1].distance = Comparisons(r)[2].distance
        /\ ~Comparisons(r)[1].isMatch
        /\ Comparisons(r)[2].isMatch
        /\ photos[Current(r).id].processed
        /\ ~photos[Current(r).id].isMatch

\* C17: whenever the progress store's status is 'error' its error field holds
\* a non-empty string, and every step that moves the status to 'error' leaves
\* such a message in the store
C17_ErrorHasMessage ==
    /\ store.status = "error" => store.error # <<>> /\ store.error[1] # ""
    /\ store.error # <<>> =>
          store.error[1] \in {NoReferenceMessage, StaleMessage(STALE_DIM), InitFailedMessage}

W17_ErrorHasMessage ==
    /\ store.status = "error"
    /\ store.error # <<>>
    /\ store.error[1] \in {NoReferenceMessage, StaleMessage(STALE_DIM), InitFailedMessage}
    /\ \A r \in Runs : run[r].pc \in {"idle", "done"}

\* C18: initialize() is memoized: however many calls are made, one after the
\* other or overlapping, the detection and recognition models are loaded at
\* most once (loads counts the loads that ran to completion)
C18_LoadedOnce == loads <= 1

\* C19: a candidate whose image cannot be decoded is a per-item failure:
\* detectAllFaces hands the pipeline no face list for it (the run never gets
\* to the ledger write), and when the candidate is finished its id is in the
\* failed-id list and its record is not marked processed
C19_DecodeFailureFails ==
    \A r \in Runs :
        (/\ run[r].pc \in {"updatePhoto", "yieldToUI"}
         /\ Current(r).id \in DOMAIN files
         /\ ~files[Current(r).id].decodable)
        => /\ run[r].pc = "yieldToUI"
           /\ Current(r).id \in FailedIds
           /\ ~photos[Current(r).id].processed

\* the processAll() calls that have a candidate in flight: its blob read has
\* been issued and its ledger write has not returned
InFlight == {r \in Runs : run[r].pc \in {"readFile", "detectAllFaces", "updatePhoto"}}

\* C20: at any time at most one candidate photo is in flight on the pipeline,
\* for every sequence of processAll() and cancel() calls, a processAll()
\* call made before an earlier one has returned included
C20_OneInFlight == Cardinality(InFlight) <= 1

\* C21: the confidence every comparison returns is a number in [0, 1]
\* derived from the metric: clamp(similarity, 0, 1) for the cosine scorer
\* and clamp(1 - distance, 0, 1) for the Euclidean scorer, whatever the
\* inputs are
C21_ConfidenceClamped ==
    (scorer.out # <<>> /\ ~scorer.out[1].threw)
    => LET out == scorer.out[1]
           one == IF scorer.by = "detector" THEN Scale * Scale ELSE Scale
       IN /\ ~out.confidence.nan
          /\ out.confidence.v >= 0 /\ out.confidence.v <= one
          /\ scorer.by = "detector" =>
                out.confidence = Clamp(0, one, out.similarity)
          /\ scorer.by = "worker" =>
                out.confidence = Clamp(0, one, Sub(Num(Scale), out.distance))

\* the fields of a record that processPhoto's updates never name
Frame(record) ==
    [id |-> record.id, opfsPath |-> record.opfsPath, filename |-> record.filename,
     size |-> record.size, mimeType |-> record.mimeType, source |-> record.source,
     timestamp |-> record.timestamp]

\* C22: no step of a run creates or deletes a record, and every step of a run
\* leaves the fields id, opfsPath, filename, size, mimeType, source and
\* timestamp of every record as they were: a run changes at most hasFace,
\* isMatch, faceConfidence and processed of an existing record
C22_PartialUpdatesOnly ==
    [][(\E r \in Runs : run'[r] # run[r])
       => /\ DOMAIN photos' = DOMAIN photos
          /\ \A id \in DOMAIN photos :
                /\ photos'[id].id = id
                /\ Frame(photos'[id]) = Frame(photos[id])]_vars

\* a run has written a record, and the record still has the fields it was
\* ingested with
W22_PartialUpdatesOnly ==
    \E r \in Runs :
        /\ run[r].pc = "yieldToUI"
        /\ Current(r).id \notin run[r].failed
        /\ photos[Current(r).id].processed
        /\ Frame(photos[Current(r).id]) = Frame(NewPhoto(Current(r).id))

\* run r leaves its loop at the end of its snapshot
Completes(r) ==
    /\ run[r].pc = "yieldToUI"
    /\ run'[r].pc = "done"
    /\ run'[r].i = Len(run[r].photos)

\* C23: each candidate's record is written exactly once per pass: a write
\* finds the record with processed = FALSE and leaves it with processed =
\* TRUE and the outcome of the comparison, no step takes a record back to
\* processed = FALSE, and a pass that reaches the end of its snapshot has
\* written every candidate of it
C23_WrittenOnce ==
    [][/\ \A r \in Runs :
            /\ Writes(r)
               => /\ ~photos[Current(r).id].processed
                  /\ photos'[Current(r).id] = ExpectedRecord(r, run[r].i + 1)
            /\ Completes(r) => \A id \in SnapshotIds(r) : photos[id].processed
       /\ \A id \in DOMAIN photos : photos[id].processed => photos'[id].processed]_vars

\* the candidates of run r that the run finished without an exception and
\* whose record holds a match
RecordedMatches(r) ==
    {k \in 1..run[r].i :
        /\ run[r].photos[k].id \notin run[r].failed
        /\ photos[run[r].photos[k].id].processed
        /\ photos[run[r].photos[k].id].isMatch}

\* C24: when a run has ended, the number of times it incremented the matched
\* counter equals the number of its candidates whose record was written with
\* isMatch = TRUE: no increment for a candidate that ended in the failed-id
\* list or whose outcome is no match
C24_MatchedCountsRecords ==
    \A r \in Runs :
        (run[r].pc = "done" /\ Len(run[r].photos) > 0)
        => run[r].matched = Cardinality(RecordedMatches(r))

CurrentRun(r) ==
    /\ run[r].pc # "idle"
    /\ \A q \in Runs : (q > r => run[q].pc = "idle") /\ (q < r => run[q].pc = "done")

\* C26: the failed-id list holds only ids of candidates that failed during
\* the current run, each at most once, whatever runs came before
C26_FailedOfThisRun ==
    /\ \A r \in Runs : CurrentRun(r) => FailedIds \subseteq run[r].failed
    /\ \A j, k \in 1..Len(store.failedFiles) :
          j # k => store.failedFiles[j] # store.failedFiles[k]

\* C27: whenever the status is 'complete', processedFiles equals totalFiles
\* and the progress shown is 100 % when totalFiles > 0, whatever runs came
\* before on the same store
C27_CompleteIsFull ==
    store.status = "complete"
    => /\ store.processedFiles = store.totalFiles
       /\ store.totalFiles > 0 => selectProgress(store) = 100

\* C28: the progress store holds an error message only while its status is
\* 'error': once a later run has moved the status on, the message of the
\* failed run is gone
C28_ErrorOnlyInError == store.error # <<>> => store.status = "error"

\* C29: in every reachable state every record has isMatch => hasFace and
\* processed, and a faceConfidence only if hasFace; a record that has not
\* been processed is as ingestion made it: hasFace, isMatch false and no
\* faceConfidence
C29_RecordConsistent ==
    \A id \in DOMAIN photos :
        LET record == photos[id]
        IN /\ record.isMatch => record.hasFace /\ record.processed
           /\ record.faceConfidence # <<>> => record.hasFace
           /\ ~record.processed =>
                 ~record.hasFace /\ ~record.isMatch /\ record.faceConfidence = <<>>

\* a record written as a match next to a record not yet processed
W29_RecordConsistent ==
    \E id, other \in DOMAIN photos :
        /\ photos[id].isMatch /\ photos[id].hasFace /\ photos[id].processed
        /\ photos[id].faceConfidence # <<>>
        /\ ~photos[other].processed

\* the embedding has length 1: the sum of its squares is Scale^2
UnitLength(embedding) ==
    DotProduct(embedding, embedding, 1, embedding.length) = Num(Scale * Scale)

\* every face of run r's current photo has an embedding of length 1
UnitFaces(r) ==
    \A k \in 1..Len(run[r].faces) :
        /\ run[r].faces[k].embedding # <<>>
        /\ UnitLength(run[r].faces[k].embedding[1])

\* C30: when the record of a photo whose faces all have unit-length
\* embeddings is written, its isMatch is TRUE exactly when the comparison of
\* at least one of the faces with the reference is a match
C30_MatchIffSomeFaceMatches ==
    [][\A r \in Runs :
          (Writes(r) /\ UnitFaces(r))
          => (photos'[Current(r).id].isMatch
              <=> \E k \in 1..Len(run[r].faces) : Comparisons(r)[k].isMatch)]_vars

\* a photo with unit-length faces of which only a later one matches has been
\* written as a match
W30_MatchIffSomeFaceMatches ==
    \E r \in Runs :
        /\ run[r].pc = "yieldToUI"
        /\ run[r].failed = {}
        /\ Len(run[r].faces) >= 2
        /\ UnitFaces(r)
        /\ ~Comparisons(r)[1].isMatch
        /\ \E k \in 2..Len(run[r].faces) : Comparisons(r)[k].isMatch
        /\ photos[Current(r).id].isMatch

====
